---- MODULE Spec2Model ----
(***************************************************************************)
(* A model of www/orm.py: the schema compiler (ModelMetaclass.__new__),    *)
(* the Record entity (Model: getValueOrDefault, find, findAll, findCount,  *)
(* save, update, remove), the SQL executor (executeSql) and the pooled     *)
(* connections it runs on.                                                 *)
(*                                                                         *)
(* Three specifications share the variables:                               *)
(*   SpecCompile  a class declaration is compiled, then a record of that   *)
(*                class has its INSERT arguments built and bound;          *)
(*   Spec         one caller runs the CRUD operations one after another    *)
(*                (as the script at the end of orm.py does) against one    *)
(*                table;                                                   *)
(*   SpecPool     several tasks run executeSql concurrently on one pool.   *)
(***************************************************************************)
EXTENDS Integers, Sequences, FiniteSets, TLC

VARIABLES
    decl,       \* the class statement handed to the metaclass: name, attrs
    cls,        \* what ModelMetaclass.__new__ produced for decl
    bound,      \* the arguments of save() bound to the INSERT template
    inst,       \* the Record (a dict) the caller holds
    table,      \* the rows of the table, in the engine's order
    ret,        \* the outcome of the caller's last operation
    resolved,   \* history: fields of inst whose default was resolved, and to what
    hist,       \* history, per key: saved (and the row), removed (and the row), updated
    pool,       \* the connection pool: maxsize, free and used connections
    task        \* per task: its position in executeSql and what it holds

vars == <<decl, cls, bound, inst, table, ret, resolved, hist, pool, task>>

(***************************************************************************)
(* Bounds.                                                                 *)
(***************************************************************************)
MaxAttrs == 3       \* attributes in a class body
MaxKey == 1         \* primary-key values are "0" .. MaxKey
MaxLimit == 1       \* rowLimit values are None, 0 .. MaxLimit
MaxPoolSize == 2    \* the pool's maxsize is 1 .. MaxPoolSize
NumTasks == 3       \* concurrent tasks, each one call of executeSql

(***************************************************************************)
(* Python values. Every value is a string; None is the string below, and   *)
(* a key missing from a dict is a key outside the function's DOMAIN.       *)
(***************************************************************************)
None == "<None>"

Range(s) == {s[i] : i \in DOMAIN s}

(***************************************************************************)
(* SQL text. A template is a sequence of tokens <<kind, text>>: "lit" is   *)
(* literal text, "quoted" a name between backticks, "?" a placeholder.     *)
(***************************************************************************)
Lit(s) == <<"lit", s>>

\* a name between backticks (the lambda of line 118, and the format strings)
Escape(f) == <<"quoted", f>>

Placeholder == <<"?", "?">>

\* ', '.join(parts): parts is a sequence of token sequences
RECURSIVE Join(_)
Join(parts) ==
    IF parts = <<>> THEN <<>>
    ELSE IF Len(parts) = 1 THEN parts[1]
    ELSE parts[1] \o <<Lit(", ")>> \o Join(Tail(parts))

\* the number of tokens of tpl equal to tok
RECURSIVE Count(_, _)
Count(tpl, tok) ==
    IF tpl = <<>> THEN 0
    ELSE (IF Head(tpl) = tok THEN 1 ELSE 0) + Count(Tail(tpl), tok)

(***************************************************************************)
(* Field descriptors and class declarations.                               *)
(***************************************************************************)
Factory == "<factory>"      \* a default that is callable
Raise == "<raise>"          \* a call that raises instead of returning

\* Field.__init__: the four attributes, stored as given
Field(name, column_type, primary_key, default) ==
    [name |-> name, column_type |-> column_type,
     primary_key |-> primary_key, default |-> default]

StringField(name, primary_key, default) ==
    Field(name, "varchar(100)", primary_key, default)

IntegerField(name, primary_key, default) ==
    Field(name, "bigint", primary_key, default)

\* one entry of a class body: the attribute's key and, when the value is a
\* Field (isinstance(v, Field)), the field
Attr(k, isField, field) == [k |-> k, isField |-> isField, field |-> field]

\* Python truthiness of a string-or-None
Truthy(v) == v # None /\ v # ""

\* x or y
Or(x, y) == IF Truthy(x) THEN x ELSE y

(***************************************************************************)
(* ModelMetaclass.__new__                                                  *)
(***************************************************************************)
\* the loop of lines 100-113 from attribute i on; acc is the loop's state
RECURSIVE ScanAttrs(_, _, _)
ScanAttrs(attrs, i, acc) ==
    IF i > Len(attrs) \/ acc.error # None THEN acc
    ELSE LET a == attrs[i] IN
         IF ~a.isField THEN ScanAttrs(attrs, i + 1, acc)
         ELSE LET withMap == [acc EXCEPT !.mappings = Append(@, a)] IN
              IF a.field.primary_key
              THEN IF Truthy(acc.primaryKey)
                   THEN [withMap EXCEPT !.error = "Duplicate primary key"]
                   ELSE ScanAttrs(attrs, i + 1, [withMap EXCEPT !.primaryKey = a.k])
              ELSE ScanAttrs(attrs, i + 1, [withMap EXCEPT !.fields = Append(@, a.k)])

\* the field the class body gives key k (mappings.get(k))
MappingOf(mappings, k) ==
    (CHOOSE a \in Range(mappings) : a.k = k).field

EscapedFields(fields) == [i \in DOMAIN fields |-> <<Escape(fields[i])>>]

SelectTemplate(tableName, primaryKey, fields) ==
    <<Lit("select "), Escape(primaryKey), Lit(", ")>>
        \o Join(EscapedFields(fields))
        \o <<Lit(" from "), Escape(tableName)>>

\* the fault of one placeholder per non-key field and none for the key
InsertPlaceholdersMissingKey(fields) ==
    Join([i \in 1..Len(fields) |-> <<Placeholder>>])

\* ', '.join('?' * (len(escaped_fields) + 1))
InsertPlaceholders(fields) ==
    Join([i \in 1..(Len(fields) + 1) |-> <<Placeholder>>])

\* the column list of line 125-126: '%s, `%s`' of the joined fields and the key
InsertColumnList(primaryKey, fields) ==
    Join(EscapedFields(fields)) \o <<Lit(", "), Escape(primaryKey)>>

InsertTemplate(tableName, primaryKey, fields) ==
    <<Lit("insert into "), Escape(tableName), Lit(" (")>>
        \o InsertColumnList(primaryKey, fields)
        \o <<Lit(") values (")>>
        \o InsertPlaceholders(fields)
        \o <<Lit(")")>>

UpdateTemplate(tableName, primaryKey, fields, mappings) ==
    <<Lit("update "), Escape(tableName), Lit(" set ")>>
        \o Join([i \in DOMAIN fields |->
                   <<Escape(Or(MappingOf(mappings, fields[i]).name, fields[i])),
                     Lit("="), Placeholder>>])
        \o <<Lit(" where "), Escape(primaryKey), Lit("="), Placeholder>>

DeleteTemplate(tableName, primaryKey) ==
    <<Lit("delete from "), Escape(tableName),
      Lit(" where "), Escape(primaryKey), Lit("="), Placeholder>>

\* line 94: the class named 'Model' is returned as it is
NewSkips(d) == d.name = "Model"

\* the outcome of the class statement d = [name, table, attrs]:
\*   kind "plain"  type.__new__ of the attrs as given (no schema attributes)
\*   kind "error"  RuntimeError raised, no class
\*   kind "class"  the class with its schema attributes
ModelMetaclassNew(d) ==
    IF NewSkips(d)
    THEN [kind |-> "plain"]
    ELSE LET tableName == Or(d.table, d.name)
             scan == ScanAttrs(d.attrs, 1,
                        [mappings |-> <<>>, fields |-> <<>>,
                         primaryKey |-> None, error |-> None])
         IN  IF scan.error # None
             THEN [kind |-> "error", error |-> scan.error]
             ELSE IF ~Truthy(scan.primaryKey)
             THEN [kind |-> "error", error |-> "Primary key not found."]
             ELSE [kind |-> "class",
                   mappings |-> scan.mappings,
                   table |-> tableName,
                   primary_key |-> scan.primaryKey,
                   fields |-> scan.fields,
                   select |-> SelectTemplate(tableName, scan.primaryKey, scan.fields),
                   insert |-> InsertTemplate(tableName, scan.primaryKey, scan.fields),
                   update |-> UpdateTemplate(tableName, scan.primaryKey, scan.fields,
                                             scan.mappings),
                   delete |-> DeleteTemplate(tableName, scan.primaryKey)]

(***************************************************************************)
(* Model.getValueOrDefault and the argument lists of save() and update()   *)
(***************************************************************************)
\* getattr(self, key, None): Model.__getattr__ reads the dict
GetAttr(d, key) == IF key \in DOMAIN d THEN d[key] ELSE None

\* setattr(self, key, value): Model.__setattr__ writes the dict
SetAttr(d, key, value) ==
    [k \in DOMAIN d \cup {key} |-> IF k = key THEN value ELSE d[k]]

\* the fault of a resolved default that is not stored on the record
GetValueOrDefaultNoCache(d, field, key, outcome) ==
    LET value == GetAttr(d, key) IN
    IF value # None \/ field.default = None
    THEN [d |-> d, value |-> value, invoked |-> FALSE, raised |-> FALSE]
    ELSE IF field.default # Factory
    THEN [d |-> d, value |-> field.default, invoked |-> FALSE, raised |-> FALSE]
    ELSE IF outcome = Raise
    THEN [d |-> d, value |-> None, invoked |-> TRUE, raised |-> TRUE]
    ELSE [d |-> d, value |-> outcome, invoked |-> TRUE, raised |-> FALSE]

\* getValueOrDefault(key) on the dict d; field is __mappings__[key] and outcome
\* is what the field's factory does if it is called. The result is the dict
\* afterwards, the value returned, and whether the factory was called / raised.
GetValueOrDefault(d, field, key, outcome) ==
    LET value == GetAttr(d, key) IN
    IF value # None \/ field.default = None
    THEN [d |-> d, value |-> value, invoked |-> FALSE, raised |-> FALSE]
    ELSE IF field.default # Factory
    THEN [d |-> SetAttr(d, key, field.default), value |-> field.default,
          invoked |-> FALSE, raised |-> FALSE]
    ELSE IF outcome = Raise
    THEN [d |-> d, value |-> None, invoked |-> TRUE, raised |-> TRUE]
    ELSE [d |-> SetAttr(d, key, outcome), value |-> outcome,
          invoked |-> TRUE, raised |-> FALSE]

\* map(self.getValueOrDefault, keys), left to right; stops at the first
\* raise. fo is what a factory does when it is called.
RECURSIVE ResolveAll(_, _, _, _, _)
ResolveAll(d, c, keys, fo, acc) ==
    IF keys = <<>> THEN [acc EXCEPT !.d = d]
    ELSE LET k == Head(keys)
             r == GetValueOrDefault(d, MappingOf(c.mappings, k), k, fo)
             acc2 == [acc EXCEPT !.args = Append(@, r.value),
                                 !.invoked = IF r.invoked THEN @ \cup {k} ELSE @]
         IN  IF r.raised
             THEN [acc EXCEPT !.d = r.d, !.raised = TRUE,
                              !.invoked = @ \cup {k}]
             ELSE ResolveAll(r.d, c, Tail(keys), fo, acc2)

\* lines 186-187 and 197-198: the non-key values in __fields__ order, then
\* the primary key's
PersistArgs(d, c, fo) ==
    ResolveAll(d, c, c.fields \o <<c.primary_key>>, fo,
               [d |-> d, args |-> <<>>, invoked |-> {}, raised |-> FALSE])

\* the columns an INSERT template names, in order: the quoted names between
\* its "(" and ") values ("
RECURSIVE ColumnsFrom(_, _)
ColumnsFrom(tpl, i) ==
    IF i > Len(tpl) \/ tpl[i] = Lit(") values (") THEN <<>>
    ELSE IF tpl[i][1] = "quoted" THEN <<tpl[i][2]>> \o ColumnsFrom(tpl, i + 1)
    ELSE ColumnsFrom(tpl, i + 1)

InsertColumns(tpl) ==
    LET open == CHOOSE i \in DOMAIN tpl : tpl[i] = Lit(" (") IN
    ColumnsFrom(tpl, open + 1)

\* what the driver does with an INSERT and its arguments: the k-th
\* placeholder takes the k-th argument, for the k-th column named.
\* "mismatch" when the counts differ (the % of line 30 raises TypeError).
BindInsert(tpl, args) ==
    LET cols == InsertColumns(tpl) IN
    IF Count(tpl, Placeholder) # Len(args) \/ Len(cols) # Len(args)
    THEN [kind |-> "mismatch"]
    ELSE [kind |-> "row",
          row |-> [col \in Range(cols) |->
                     args[CHOOSE i \in DOMAIN cols : cols[i] = col]]]

(***************************************************************************)
(* SpecCompile: a class statement is compiled, then a record of the class  *)
(* is saved and its arguments are bound to the INSERT template.            *)
(***************************************************************************)
EmptyDict == [k \in {} |-> None]

AttrKeys == {"SId", "Sname", "Sage", "Ssex"}
ClassNames == {"Model", "Student"}

\* the sequences of at most n distinct keys
RECURSIVE KeySeqs(_)
KeySeqs(n) ==
    IF n = 0 THEN {<<>>}
    ELSE LET shorter == KeySeqs(n - 1) IN
         shorter \cup {Append(q, k) : q \in shorter, k \in AttrKeys}

DistinctKeySeqs ==
    {q \in KeySeqs(MaxAttrs) : \A i, j \in DOMAIN q : i # j => q[i] # q[j]}

\* what a class body can give a key: a value that is no Field (a method),
\* or a Field, primary key or not, with or without a column name of its own
AttrValues ==
    {[isField |-> FALSE, field |-> StringField(None, FALSE, None)]}
    \cup {[isField |-> TRUE, field |-> StringField(n, pk, None)] :
            n \in {None, "col"}, pk \in BOOLEAN}

\* the class statements: Model itself (line 133), and the subclasses of it
Declarations ==
    {[name |-> "Model", bases |-> "dict", table |-> None, attrs |-> <<>>]}
    \cup
    {[name |-> n, bases |-> "Model", table |-> t,
      attrs |-> [i \in DOMAIN q |-> Attr(q[i], v[i].isField, v[i].field)]] :
        n \in ClassNames, t \in {None, "students"},
        q \in DistinctKeySeqs, v \in [1..MaxAttrs -> AttrValues]}

Pending == [kind |-> "pending"]
Unbound == [kind |-> "none"]
NoRet == [op |-> "none"]
NoPool == [maxsize |-> 0, free |-> {}, used |-> {}]

\* the value a record gives its attribute k
Val(k) == "v-" \o k

\* the variables the specification at hand does not use
IdleData ==
    /\ inst = EmptyDict
    /\ table = <<>>
    /\ ret = NoRet
    /\ resolved = EmptyDict
    /\ hist = {}

IdlePool ==
    /\ pool = NoPool
    /\ task = <<>>

IdleCompile ==
    /\ decl = [name |-> "Model", bases |-> "dict", table |-> None, attrs |-> <<>>]
    /\ cls = Pending
    /\ bound = Unbound

InitCompile ==
    /\ decl \in Declarations
    /\ cls = Pending
    /\ bound = Unbound
    /\ IdleData
    /\ IdlePool

\* the class statement runs: ModelMetaclass.__new__(name, bases, attrs)
Compile ==
    /\ cls = Pending
    /\ cls' = ModelMetaclassNew(decl)
    /\ UNCHANGED <<decl, bound, inst, table, ret, resolved, hist, pool, task>>

\* cls(**kw).save() up to the statement the executor is given: every field
\* of the record is set, the arguments are built and bound to __insert__
SaveNew ==
    /\ cls.kind = "class"
    /\ bound = Unbound
    /\ LET keys == {a.k : a \in Range(cls.mappings)}
           d == [k \in keys |-> Val(k)]
           r == PersistArgs(d, cls, None)
       IN  bound' = [kind |-> "bound", args |-> r.args,
                     stmt |-> BindInsert(cls.insert, r.args)]
    /\ UNCHANGED <<decl, cls, inst, table, ret, resolved, hist, pool, task>>

NextCompile == Compile \/ SaveNew

SpecCompile == InitCompile /\ [][NextCompile]_vars

(***************************************************************************)
(* The table and the database engine behind cur.execute.                   *)
(***************************************************************************)
\* primary-key values: "0" is IntegerField's default, the others are given
Keys == {ToString(i) : i \in 1..MaxKey}

\* rowLimit: None, or an integer 0 .. MaxLimit
NoLimit == [isNone |-> TRUE, n |-> 0]
Limits == {NoLimit} \cup {[isNone |-> FALSE, n |-> i] : i \in 0..MaxLimit}

\* Python truthiness of limit (None and 0 are false)
LimitTruthy(limit) == ~limit.isNone /\ limit.n # 0

\* the WHERE texts a caller passes: none, a comparison on the key, and a
\* LIKE pattern (which holds a per cent sign)
WhereKey == "SId >= 1"
WhereLike == "Sname like '%'"
Wheres == {None, WhereKey, WhereLike}

\* what the engine makes of a WHERE text on a row
WhereHolds(w, row) ==
    IF w = WhereKey THEN row["SId"] \in Keys
    ELSE IF w = WhereLike THEN row["Sname"] # None
    ELSE TRUE

\* the quoted names of tpl from token i up to the token stop
RECURSIVE QuotedUntil(_, _, _)
QuotedUntil(tpl, i, stop) ==
    IF i > Len(tpl) \/ tpl[i] = stop THEN <<>>
    ELSE IF tpl[i][1] = "quoted" THEN <<tpl[i][2]>> \o QuotedUntil(tpl, i + 1, stop)
    ELSE QuotedUntil(tpl, i + 1, stop)

\* the rows of tbl that the WHERE part of a SELECT keeps
Matching(sql, args, tbl) ==
    LET wh == {i \in DOMAIN sql : sql[i] = Lit(" where ")} IN
    IF wh = {} THEN tbl
    ELSE LET i == CHOOSE j \in wh : TRUE
             cond == sql[i + 1]
         IN  IF cond[1] = "bare"
             THEN SelectSeq(tbl, LAMBDA row : row[cond[2]] = args[1])
             ELSE SelectSeq(tbl, LAMBDA row : WhereHolds(cond[2], row))

\* the position in tbl of the row whose column col is v, 0 when there is none
RowIndex(tbl, col, v) ==
    IF \E i \in DOMAIN tbl : tbl[i][col] = v
    THEN CHOOSE i \in DOMAIN tbl : tbl[i][col] = v
    ELSE 0

\* tbl without its i-th row
DropRow(tbl, i) == SubSeq(tbl, 1, i - 1) \o SubSeq(tbl, i + 1, Len(tbl))

\* cur.execute(sql, args) on the table tbl with pk its primary-key column:
\* the rows selected or the count of rows affected, and the table afterwards.
\* health = "error" is a failure of the engine or of the connection; a second
\* row with a key the table holds is a constraint violation.
EngineExecute(sql, args, tbl, pk, health) ==
    LET verb == sql[1][2]
        failed == [raised |-> TRUE, rows |-> <<>>, affected |-> 0, table |-> tbl]
    IN
    IF health = "error" THEN failed
    ELSE IF verb = "select "
    THEN LET cols == QuotedUntil(sql, 1, Lit(" where "))
             names == {cols[i] : i \in 1..(Len(cols) - 1)}
             hit == Matching(sql, args, tbl)
         IN  [raised |-> FALSE,
              rows |-> [i \in DOMAIN hit |-> [c \in names |-> hit[i][c]]],
              affected |-> Len(hit), table |-> tbl]
    ELSE IF verb = "insert into "
    THEN LET b == BindInsert(sql, args) IN
         IF b.kind # "row" \/ RowIndex(tbl, pk, b.row[pk]) # 0 THEN failed
         ELSE [raised |-> FALSE, rows |-> <<>>, affected |-> 1,
               table |-> Append(tbl, b.row)]
    ELSE IF verb = "update "
    THEN LET cols == QuotedUntil(sql, 3, Lit(" where "))
             i == RowIndex(tbl, pk, args[Len(args)])
             new == [c \in DOMAIN tbl[i] |->
                       IF \E j \in DOMAIN cols : cols[j] = c
                       THEN args[CHOOSE j \in DOMAIN cols : cols[j] = c]
                       ELSE tbl[i][c]]
         IN  IF i = 0 \/ new = tbl[i]
             THEN [raised |-> FALSE, rows |-> <<>>, affected |-> 0, table |-> tbl]
             ELSE [raised |-> FALSE, rows |-> <<>>, affected |-> 1,
                   table |-> [tbl EXCEPT ![i] = new]]
    ELSE LET i == RowIndex(tbl, pk, args[1]) IN
         IF i = 0
         THEN [raised |-> FALSE, rows |-> <<>>, affected |-> 0, table |-> tbl]
         ELSE [raised |-> FALSE, rows |-> <<>>, affected |-> 1,
               table |-> DropRow(tbl, i)]

(***************************************************************************)
(* executeSql, run from its first line to its return or raise.             *)
(***************************************************************************)
\* line 30: sql.replace('?', '%s') % tuple(args) raises when the text holds
\* a per cent sign or when the placeholders and the arguments differ in number
LogRaises(sql, args) ==
    \/ Count(sql, Placeholder) # Len(args)
    \/ \E i \in DOMAIN sql : sql[i] = <<"raw", WhereLike>>

\* lines 36-41: fetchmany(limit) if limit, else fetchall()
Fetch(rows, limit) ==
    IF LimitTruthy(limit)
    THEN SubSeq(rows, 1, IF limit.n < Len(rows) THEN limit.n ELSE Len(rows))
    ELSE rows

\* executeSql(sql, args, select, limit): kind "rows" with the rows fetched,
\* kind "affected" with cur.rowcount, or kind "raise"; and the table afterwards
ExecuteSql(sql, args, select, limit, tbl, pk, health) ==
    IF LogRaises(sql, args)
    THEN [kind |-> "raise", rows |-> <<>>, affected |-> 0, table |-> tbl]
    ELSE LET r == EngineExecute(sql, args, tbl, pk, health) IN
         IF r.raised
         THEN [kind |-> "raise", rows |-> <<>>, affected |-> 0, table |-> tbl]
         ELSE IF select
         THEN [kind |-> "rows", rows |-> Fetch(r.rows, limit), affected |-> 0,
               table |-> r.table]
         ELSE [kind |-> "affected", rows |-> <<>>, affected |-> r.affected,
               table |-> r.table]

(***************************************************************************)
(* Model's class methods, as functions of the table.                       *)
(***************************************************************************)
\* Model.find: None when no row comes back, else the list fetched
Find(c, pk, tbl, health) ==
    LET sql == c.select \o <<Lit(" where "), <<"bare", c.primary_key>>,
                             Lit("= "), Placeholder>>
        r == ExecuteSql(sql, <<pk>>, TRUE, [isNone |-> FALSE, n |-> 1],
                        tbl, c.primary_key, health)
    IN  IF r.kind = "raise" THEN [kind |-> "raise"]
        ELSE IF Len(r.rows) = 0 THEN [kind |-> "none"]
        ELSE [kind |-> "rows", value |-> r.rows]

\* Model.findAll: None when no row comes back, else the list fetched
FindAll(c, where, limit, tbl, health) ==
    LET sql == IF Truthy(where)
               THEN c.select \o <<Lit(" where "), <<"raw", where>>>>
               ELSE c.select
        r == ExecuteSql(sql, <<>>, TRUE, limit, tbl, c.primary_key, health)
    IN  IF r.kind = "raise" THEN [kind |-> "raise"]
        ELSE IF Len(r.rows) = 0 THEN [kind |-> "none"]
        ELSE [kind |-> "rows", value |-> r.rows]

\* Model.findCount: len() of what findAll returns; len(None) raises TypeError
FindCount(c, where, limit, tbl, health) ==
    LET result == FindAll(c, where, limit, tbl, health) IN
    IF result.kind = "raise" THEN [kind |-> "raise", error |-> "findAll"]
    ELSE IF result.kind = "none" THEN [kind |-> "raise", error |-> "TypeError"]
    ELSE [kind |-> "int", value |-> Len(result.value)]

(***************************************************************************)
(* Model's instance methods: the record afterwards, the table afterwards   *)
(* and what the caller sees.                                               *)
(***************************************************************************)
\* the fault of a save without its except clause
SaveReraises(c, d, tbl, health, fo) ==
    LET r == PersistArgs(d, c, fo) IN
    IF r.raised
    THEN [kind |-> "raise", raisedBy |-> "factory", d |-> r.d, table |-> tbl,
          args |-> r.args, invoked |-> r.invoked, affected |-> 0]
    ELSE LET x == ExecuteSql(c.insert, r.args, FALSE, NoLimit, tbl,
                             c.primary_key, health)
         IN  IF x.kind = "raise"
             THEN [kind |-> "raise", raisedBy |-> "engine", d |-> r.d,
                   table |-> x.table, args |-> r.args, invoked |-> r.invoked,
                   affected |-> 0]
             ELSE [kind |-> "ok", raisedBy |-> "none", d |-> r.d,
                   table |-> x.table, args |-> r.args, invoked |-> r.invoked,
                   affected |-> x.affected]

\* Model.save: the arguments are built outside the try block (a factory that
\* raises is not caught); what executeSql raises is logged and swallowed
Save(c, d, tbl, health, fo) ==
    LET r == PersistArgs(d, c, fo) IN
    IF r.raised
    THEN [kind |-> "raise", raisedBy |-> "factory", d |-> r.d, table |-> tbl,
          args |-> r.args, invoked |-> r.invoked, affected |-> 0]
    ELSE LET x == ExecuteSql(c.insert, r.args, FALSE, NoLimit, tbl,
                             c.primary_key, health)
         IN  IF x.kind = "raise"
             THEN [kind |-> "ok", raisedBy |-> "logged", d |-> r.d,
                   table |-> x.table, args |-> r.args, invoked |-> r.invoked,
                   affected |-> 0]
             ELSE [kind |-> "ok", raisedBy |-> "none", d |-> r.d,
                   table |-> x.table, args |-> r.args, invoked |-> r.invoked,
                   affected |-> x.affected]

\* Model.update: as save, with __update__ and no try block
Update(c, d, tbl, health, fo) ==
    LET r == PersistArgs(d, c, fo) IN
    IF r.raised
    THEN [kind |-> "raise", raisedBy |-> "factory", d |-> r.d, table |-> tbl,
          args |-> r.args, invoked |-> r.invoked, affected |-> 0]
    ELSE LET x == ExecuteSql(c.update, r.args, FALSE, NoLimit, tbl,
                             c.primary_key, health)
         IN  IF x.kind = "raise"
             THEN [kind |-> "raise", raisedBy |-> "engine", d |-> r.d,
                   table |-> x.table, args |-> r.args, invoked |-> r.invoked,
                   affected |-> 0]
             ELSE [kind |-> "ok", raisedBy |-> "none", d |-> r.d,
                   table |-> x.table, args |-> r.args, invoked |-> r.invoked,
                   affected |-> x.affected]

\* the fault of a remove whose statement deletes no row
RemoveNothing(c, primary, tbl, health) ==
    LET x == ExecuteSql(c.delete, <<primary>>, FALSE, NoLimit, tbl,
                        c.primary_key, health)
    IN  IF x.kind = "raise"
        THEN [kind |-> "raise", table |-> tbl, affected |-> 0]
        ELSE [kind |-> "ok", table |-> tbl, affected |-> 0]

\* Model.remove: __delete__ with the key; a count other than 1 is only logged
Remove(c, primary, tbl, health) ==
    LET x == ExecuteSql(c.delete, <<primary>>, FALSE, NoLimit, tbl,
                        c.primary_key, health)
    IN  IF x.kind = "raise"
        THEN [kind |-> "raise", table |-> x.table, affected |-> 0]
        ELSE [kind |-> "ok", table |-> x.table, affected |-> x.affected]

(***************************************************************************)
(* Spec: one caller, one table, the operations one after another.          *)
(***************************************************************************)
\* class Student of lines 211-217
StudentDecl ==
    [name |-> "Student", bases |-> "Model", table |-> "Student",
     attrs |-> <<Attr("SId", TRUE, IntegerField(None, TRUE, "0")),
                 Attr("Sname", TRUE, StringField(None, FALSE, None)),
                 Attr("Sage", TRUE, StringField(None, FALSE, None)),
                 Attr("Ssex", TRUE, StringField(None, FALSE, None))>>]

\* the same class with the defaults a Field can be given: a factory for
\* Sname and a literal for Sage
StudentWithDefaultsDecl ==
    [name |-> "Student", bases |-> "Model", table |-> "Student",
     attrs |-> <<Attr("SId", TRUE, IntegerField(None, TRUE, "0")),
                 Attr("Sname", TRUE, StringField(None, FALSE, Factory)),
                 Attr("Sage", TRUE, StringField(None, FALSE, "1990")),
                 Attr("Ssex", TRUE, StringField(None, FALSE, None))>>]

AllKeys == Keys \cup {"0"}

\* the keyword arguments a caller constructs a record with: Ssex always,
\* SId and Sname or not
Kwargs ==
    {[k \in present |-> IF k = "SId" THEN id
                        ELSE IF k = "Sname" THEN "" ELSE "F"] :
        present \in {{"Ssex"} \cup x : x \in SUBSET {"SId", "Sname"}},
        id \in Keys}

\* those that leave the key to its default
KwargsNoKey == {kw \in Kwargs : "SId" \notin DOMAIN kw}

\* what a factory does when called: returns a value, returns None, raises
FactoryOutcomes == {"made", None, Raise}

Healths == {"ok", "error"}

NoHist == [st |-> "none", row |-> EmptyDict]

Ret(op, kind, extra) ==
    [op |-> op, kind |-> kind, key |-> extra.key, where |-> extra.where,
     limit |-> extra.limit, health |-> extra.health, value |-> extra.value,
     count |-> extra.count, before |-> extra.before, findAll |-> extra.findAll,
     instBefore |-> extra.instBefore, cachedBefore |-> extra.cachedBefore,
     args |-> extra.args, invoked |-> extra.invoked, raisedBy |-> extra.raisedBy,
     affected |-> extra.affected, fo |-> extra.fo]

Blank ==
    [key |-> None, where |-> None, limit |-> NoLimit, health |-> "ok",
     value |-> <<>>, count |-> 0, before |-> <<>>, findAll |-> [kind |-> "none"],
     instBefore |-> EmptyDict, cachedBefore |-> EmptyDict, args |-> <<>>,
     invoked |-> {}, raisedBy |-> "none", affected |-> 0, fo |-> None]

InitWith(d) ==
    /\ decl = d
    /\ cls = ModelMetaclassNew(decl)
    /\ bound = Unbound
    /\ inst = EmptyDict
    /\ table = <<>>
    /\ ret = Ret("none", "ok", Blank)
    /\ resolved = EmptyDict
    /\ hist = [k \in AllKeys |-> NoHist]
    /\ IdlePool

\* s = Student(**kw): Model.__init__ stores the keywords and nothing else
New(kw) ==
    /\ inst' = kw
    /\ resolved' = EmptyDict
    /\ ret' = Ret("new", "ok", [Blank EXCEPT !.instBefore = kw])
    /\ UNCHANGED <<decl, cls, bound, table, hist, pool, task>>

\* s.key = value: Model.__setattr__
SetAttribute(key, value) ==
    /\ inst' = SetAttr(inst, key, value)
    /\ resolved' = [k \in DOMAIN resolved \ {key} |-> resolved[k]]
    /\ ret' = Ret("setattr", "ok", [Blank EXCEPT !.key = key])
    /\ UNCHANGED <<decl, cls, bound, table, hist, pool, task>>

\* the defaults a save or update resolved: the fields that had no value, have
\* a default, and were reached before any raise
NewlyResolved(before, out) ==
    LET order == cls.fields \o <<cls.primary_key>>
        done == {order[i] : i \in 1..Len(out.args)}
        fresh == {k \in done : /\ GetAttr(before, k) = None
                               /\ MappingOf(cls.mappings, k).default # None}
    IN  [k \in DOMAIN resolved \cup fresh |->
            IF k \in fresh
            THEN out.args[CHOOSE i \in DOMAIN order : order[i] = k]
            ELSE resolved[k]]

PersistExtra(out, d, cached, health, fo) ==
    [Blank EXCEPT !.health = health, !.fo = fo, !.before = table, !.instBefore = d,
                  !.cachedBefore = cached, !.args = out.args,
                  !.invoked = out.invoked, !.raisedBy = out.raisedBy,
                  !.affected = out.affected]

\* what a save of the record d with the outcome out does to the table, and
\* what the caller sees
SaveEffects(out, d, cached, health, fo) ==
    /\ table' = out.table
    /\ ret' = Ret("save", out.kind, PersistExtra(out, d, cached, health, fo))
    /\ hist' = IF out.affected = 1
               THEN [hist EXCEPT ![out.args[Len(out.args)]] =
                       [st |-> "saved", row |-> out.table[Len(out.table)]]]
               ELSE hist

\* await s.save(), s the record the caller holds
DoSave(health, fo) ==
    LET out == Save(cls, inst, table, health, fo) IN
    /\ inst' = out.d
    /\ resolved' = NewlyResolved(inst, out)
    /\ SaveEffects(out, inst, resolved, health, fo)
    /\ UNCHANGED <<decl, cls, bound, pool, task>>

\* s = Student(**kw); await s.save(), as lines 237-239 do; s is not used again
SaveNewRecord(kw, health) ==
    LET out == Save(cls, kw, table, health, None) IN
    /\ SaveEffects(out, kw, EmptyDict, health, None)
    /\ UNCHANGED <<decl, cls, bound, inst, resolved, pool, task>>

\* await s.update()
DoUpdate(health, fo) ==
    LET out == Update(cls, inst, table, health, fo) IN
    /\ inst' = out.d
    /\ table' = out.table
    /\ resolved' = NewlyResolved(inst, out)
    /\ ret' = Ret("update", out.kind, PersistExtra(out, inst, resolved, health, fo))
    /\ hist' = IF out.affected = 1
               THEN [hist EXCEPT ![out.args[Len(out.args)]] =
                       [st |-> "updated", row |-> EmptyDict]]
               ELSE hist
    /\ UNCHANGED <<decl, cls, bound, pool, task>>

\* await Student.find(pk)
DoFind(pk, health) ==
    LET out == Find(cls, pk, table, health) IN
    /\ ret' = Ret("find", out.kind,
                  [Blank EXCEPT !.key = pk, !.health = health, !.before = table,
                                !.value = IF out.kind = "raise" \/ out.kind = "none"
                                          THEN <<>> ELSE out.value])
    /\ UNCHANGED <<decl, cls, bound, inst, table, resolved, hist, pool, task>>

\* await Student.findAll(where, limit); ret.findAll records what the same
\* call without a limit returns on the same table
DoFindAll(where, limit, health) ==
    LET out == FindAll(cls, where, limit, table, health)
        all == FindAll(cls, where, NoLimit, table, health)
    IN
    /\ ret' = Ret("findAll", out.kind,
                  [Blank EXCEPT !.where = where, !.limit = limit,
                                !.health = health, !.before = table,
                                !.findAll = all,
                                !.value = IF out.kind = "rows" THEN out.value
                                          ELSE <<>>])
    /\ UNCHANGED <<decl, cls, bound, inst, table, resolved, hist, pool, task>>

\* await Student.findCount(where, limit); ret.findAll records what findAll
\* returns for the same arguments on the same table
DoFindCount(where, limit, health) ==
    LET out == FindCount(cls, where, limit, table, health)
        all == FindAll(cls, where, limit, table, health)
    IN
    /\ ret' = Ret("findCount", out.kind,
                  [Blank EXCEPT !.where = where, !.limit = limit,
                                !.health = health, !.before = table,
                                !.findAll = all,
                                !.count = IF out.kind = "int" THEN out.value ELSE 0])
    /\ UNCHANGED <<decl, cls, bound, inst, table, resolved, hist, pool, task>>

\* await Student.remove(primary)
DoRemove(primary, health) ==
    LET out == Remove(cls, primary, table, health) IN
    /\ table' = out.table
    /\ ret' = Ret("remove", out.kind,
                  [Blank EXCEPT !.key = primary, !.health = health,
                                !.before = table, !.affected = out.affected])
    /\ hist' = IF out.kind = "ok"
               THEN [hist EXCEPT ![primary] =
                       [st |-> "removed",
                        row |-> IF out.affected = 1
                                THEN table[RowIndex(table, cls.primary_key, primary)]
                                ELSE EmptyDict]]
               ELSE hist
    /\ UNCHANGED <<decl, cls, bound, inst, resolved, pool, task>>

\* class Student as orm.py declares it: no field has a factory
Init == InitWith(StudentDecl)

\* the engine fails, or not, under the statements that change the table;
\* the queries run on a healthy engine
Next ==
    \/ \E kw \in Kwargs, h \in Healths : SaveNewRecord(kw, h)
    \/ \E pk \in AllKeys : DoFind(pk, "ok")
    \/ \E w \in Wheres, l \in Limits : DoFindAll(w, l, "ok")
    \/ \E w \in Wheres, l \in Limits : DoFindCount(w, l, "ok")
    \/ \E pk \in AllKeys, h \in Healths : DoRemove(pk, h)

Spec == Init /\ [][Next]_vars

(***************************************************************************)
(* SpecDefaults: records of a class whose fields declare defaults are      *)
(* constructed, changed, saved and updated.                                *)
(***************************************************************************)
InitDefaults == InitWith(StudentWithDefaultsDecl)

NextDefaults ==
    \/ \E kw \in KwargsNoKey : New(kw)
    \/ SetAttribute("Sname", "")
    \/ \E h \in Healths, fo \in FactoryOutcomes : DoSave(h, fo)
    \/ \E h \in Healths, fo \in FactoryOutcomes : DoUpdate(h, fo)
    \/ \E h \in Healths : DoRemove("0", h)

SpecDefaults == InitDefaults /\ [][NextDefaults]_vars

(***************************************************************************)
(* SpecPool: tasks run executeSql concurrently on the pool createPool made.*)
(* One step of a task runs it from one await to the next.                  *)
(***************************************************************************)
Tasks == 1..NumTasks

\* createPool with minsize = 1 (line 23) and the maxsize given: one
\* connection is open and free
CreatePool(maxsize) == [maxsize |-> maxsize, free |-> {1}, used |-> {}]

\* the pool has a connection to hand out: a free one, or room for a new one
CanAcquire(p) ==
    p.free # {} \/ Cardinality(p.free) + Cardinality(p.used) < p.maxsize

\* the connection handed out: a free one, else a new one
Acquired(p) ==
    IF p.free # {} THEN CHOOSE c \in p.free : TRUE
    ELSE CHOOSE c \in 1..(Cardinality(p.used) + 1) : c \notin p.used

Checkout(p, c) == [p EXCEPT !.free = @ \ {c}, !.used = @ \cup {c}]

\* the fault of a connection released on return only, not on an exception
ReleaseUnlessRaised(p, c, raised) ==
    IF raised THEN p
    ELSE [p EXCEPT !.used = @ \ {c}, !.free = @ \cup {c}]

\* leaving the async with block of line 32, by return or by exception: the
\* connection goes back to the pool
Release(p, c, raised) == [p EXCEPT !.used = @ \ {c}, !.free = @ \cup {c}]

\* a task made by asyncio.ensure_future for one operation, not yet run
NewTask == [pc |-> "new", conn |-> 0, select |-> TRUE, last |-> "none"]

InitPool ==
    /\ \E m \in 1..MaxPoolSize : pool = CreatePool(m)
    /\ task = [t \in Tasks |-> NewTask]
    /\ IdleCompile
    /\ IdleData

Others == <<decl, cls, bound, inst, table, ret, resolved, hist>>

\* task t runs to executeSql(sql, args, select, limit). Line 30 formats the
\* statement for the log and may raise; then the pool hands out a connection
\* at once and the cursor is made (lines 32-33), or the task is suspended in
\* acquire() until there is one
Call(t, select, logOk) ==
    /\ task[t].pc = "new"
    /\ IF ~logOk
       THEN /\ task' = [task EXCEPT ![t].pc = "done", ![t].last = "raised early"]
            /\ pool' = pool
       ELSE IF CanAcquire(pool)
       THEN /\ task' = [task EXCEPT ![t].pc = "execute", ![t].select = select,
                                    ![t].conn = Acquired(pool)]
            /\ pool' = Checkout(pool, Acquired(pool))
       ELSE /\ task' = [task EXCEPT ![t].pc = "acquire", ![t].select = select]
            /\ pool' = pool
    /\ UNCHANGED Others

\* a suspended acquire() resumes with a connection
Acquire(t) ==
    /\ task[t].pc = "acquire"
    /\ CanAcquire(pool)
    /\ task' = [task EXCEPT ![t].pc = "execute", ![t].conn = Acquired(pool)]
    /\ pool' = Checkout(pool, Acquired(pool))
    /\ UNCHANGED Others

\* the block is left: the connection is released and the call is over
Leave(t, raised) ==
    /\ pool' = Release(pool, task[t].conn, raised)
    /\ task' = [task EXCEPT ![t].pc = "done", ![t].conn = 0,
                            ![t].select = TRUE,
                            ![t].last = IF raised THEN "raised" ELSE "returned"]

\* await cur.execute(...) of line 35 or 46 completes, or raises
Execute(t, ok) ==
    /\ task[t].pc = "execute"
    /\ IF ok
       THEN /\ task' = [task EXCEPT ![t].pc = IF task[t].select THEN "fetch"
                                              ELSE "close"]
            /\ pool' = pool
       ELSE Leave(t, TRUE)
    /\ UNCHANGED Others

\* await cur.fetchmany(limit) or cur.fetchall() completes, or raises
FetchRows(t, ok) ==
    /\ task[t].pc = "fetch"
    /\ IF ok
       THEN /\ task' = [task EXCEPT ![t].pc = "close"]
            /\ pool' = pool
       ELSE Leave(t, TRUE)
    /\ UNCHANGED Others

\* await cur.close() completes and the result is returned, or it raises
Close(t, ok) ==
    /\ task[t].pc = "close"
    /\ Leave(t, ~ok)
    /\ UNCHANGED Others

\* what the engine and the pool do for task t, sooner or later
Progress(t) ==
    \/ Acquire(t)
    \/ \E ok \in BOOLEAN : Execute(t, ok)
    \/ \E ok \in BOOLEAN : FetchRows(t, ok)
    \/ \E ok \in BOOLEAN : Close(t, ok)

NextPool ==
    \/ \E t \in Tasks, select \in BOOLEAN, logOk \in BOOLEAN : Call(t, select, logOk)
    \/ \E t \in Tasks : Progress(t)

\* every await of a task that can resume does resume: the event loop runs
\* it, and the engine answers or fails
SpecPool ==
    InitPool /\ [][NextPool]_vars /\ \A t \in Tasks : WF_vars(Progress(t))

(***************************************************************************)
(* Properties of the schema compiler.                                      *)
(***************************************************************************)
\* the declared fields of d that are / are not marked primary key, in
\* declaration order
KeyFieldsOf(d) ==
    SelectSeq(d.attrs, LAMBDA a : a.isField /\ a.field.primary_key)

OtherFieldsOf(d) ==
    LET sel == SelectSeq(d.attrs, LAMBDA a : a.isField /\ ~a.field.primary_key)
    IN  [i \in DOMAIN sel |-> sel[i].k]

\* C1: once a subclass of Model with zero primary-key fields, or with two or
\* more, has been compiled, the outcome is the corresponding error (never a
\* class).
C1_KeyCountEnforced ==
    (decl.bases = "Model" /\ cls # Pending /\ Len(KeyFieldsOf(decl)) # 1)
        => /\ cls.kind = "error"
           /\ cls.error = IF Len(KeyFieldsOf(decl)) = 0
                          THEN "Primary key not found."
                          ELSE "Duplicate primary key"

\* C2: a compiled class has exactly one primary-key field; with N other
\* fields its INSERT template has N+1 placeholders and names the N non-key
\* columns in declaration order, then the primary key; and the arguments
\* save() builds are N+1 values that bind, column by column, to the value the
\* record holds for that column.
C2_InsertTemplateMatchesSaveArgs ==
    /\ cls.kind = "class" =>
          /\ Len(KeyFieldsOf(decl)) = 1
          /\ Count(cls.insert, Placeholder) = Len(OtherFieldsOf(decl)) + 1
          /\ InsertColumns(cls.insert)
                = OtherFieldsOf(decl) \o <<KeyFieldsOf(decl)[1].k>>
    /\ bound.kind = "bound" =>
          /\ Len(bound.args) = Count(cls.insert, Placeholder)
          /\ bound.stmt.kind = "row"
          /\ DOMAIN bound.stmt.row = {a.k : a \in Range(cls.mappings)}
          /\ \A k \in DOMAIN bound.stmt.row : bound.stmt.row[k] = Val(k)

\* C2 witness: a record of a class with two or more non-key fields declared
\* before and after the key has been saved and bound
C2_Witness ==
    /\ bound.kind = "bound"
    /\ Len(cls.fields) >= 2
    /\ decl.attrs[2].k = cls.primary_key

(***************************************************************************)
(* Properties of the finders, save and remove (Spec).                      *)
(***************************************************************************)
\* s is a prefix of t
IsPrefix(s, t) == Len(s) <= Len(t) /\ \A i \in DOMAIN s : s[i] = t[i]

\* C3: a find(pk) that follows the save of a record with that key (the key
\* was not in the table, and nothing removed it since) returns a single row,
\* not None and not a list, and the row holds the values saved.
C3_FindAfterSaveReturnsTheRow ==
    (ret.op = "find" /\ hist[ret.key].st = "saved")
        => /\ ret.kind = "row"
           /\ ret.value = hist[ret.key].row

\* what the code does in the case of C3: the list of one row
FindAfterSaveReturnsListOfOne ==
    (ret.op = "find" /\ hist[ret.key].st = "saved")
        => /\ ret.kind = "rows"
           /\ ret.value = <<hist[ret.key].row>>

\* C4: when findAll does not raise, findCount with the same arguments on the
\* same table returns an integer, the length of what findAll returns, which
\* is 0 when no row matches.
C4_FindCountIsLengthOfFindAll ==
    (ret.op = "findCount" /\ ret.findAll.kind # "raise")
        => /\ ret.kind = "int"
           /\ ret.count = IF ret.findAll.kind = "none" THEN 0
                          ELSE Len(ret.findAll.value)

\* C7: a find(pk) after a remove(pk) that completed, with no save of pk in
\* between, returns None; a find(pk) after the save of pk returns exactly the
\* one row saved; a remove completes whenever the engine does not fail, and
\* with a key the table does not hold it changes nothing.
C7_RemoveThenFindIsAbsent ==
    /\ (ret.op = "find" /\ hist[ret.key].st = "removed") => ret.kind = "none"
    /\ (ret.op = "find" /\ hist[ret.key].st = "saved") =>
          /\ ret.kind = "rows"
          /\ Len(ret.value) = 1
          /\ ret.value[1] = hist[ret.key].row
    /\ (ret.op = "remove" /\ ret.health = "ok") =>
          /\ ret.kind = "ok"
          /\ RowIndex(table, cls.primary_key, ret.key) = 0
          /\ RowIndex(ret.before, cls.primary_key, ret.key) = 0
                => (table = ret.before /\ ret.affected = 0)

\* C7 witness: the second find of save(k); remove(k); find(k) has returned
C7_Witness ==
    /\ ret.op = "find"
    /\ ret.kind = "none"
    /\ hist[ret.key].st = "removed"
    /\ hist[ret.key].row # EmptyDict

\* C8: a findAll with a rowLimit (any integer, 0 included) that returns rows
\* returns at most rowLimit of them, a prefix of what findAll without a limit
\* returns on the same table and WHERE; and a findAll with no WHERE and no
\* limit returns every row.
C8_LimitBoundsFindAll ==
    /\ (ret.op = "findAll" /\ ret.kind = "rows" /\ ~ret.limit.isNone) =>
          /\ Len(ret.value) <= ret.limit.n
          /\ ret.findAll.kind = "rows"
          /\ IsPrefix(ret.value, ret.findAll.value)
    /\ (ret.op = "findAll" /\ ret.kind = "rows" /\ ret.limit.isNone
            /\ ret.where = None) => ret.value = table

\* what the code does in the case of C8: the bound holds of every limit but 0
PositiveLimitBoundsFindAll ==
    (ret.op = "findAll" /\ ret.kind = "rows" /\ ~ret.limit.isNone
        /\ ret.limit.n # 0) =>
          /\ Len(ret.value) <= ret.limit.n
          /\ ret.findAll.kind = "rows"
          /\ IsPrefix(ret.value, ret.findAll.value)

(***************************************************************************)
(* Properties of save and of default resolution (SpecDefaults).            *)
(***************************************************************************)
\* C6 as claimed: save never raises, and when the statement failed the table
\* is as it was.
C6_SaveNeverRaises ==
    ret.op = "save" =>
        /\ ret.kind = "ok"
        /\ ret.raisedBy = "logged" => table = ret.before

\* C6 as amended: save raises only when a default factory raised while the
\* arguments were being built (before the try block); whatever the executor
\* raises (an engine failure, a duplicate key) is swallowed: the caller sees
\* normal completion and the table is as it was.
C6_SaveSwallowsExecutorErrors ==
    ret.op = "save" =>
        /\ ret.kind = "raise" =>
              /\ ret.fo = Raise
              /\ ret.invoked # {}
              /\ table = ret.before
        /\ (/\ ret.kind = "ok"
            /\ \/ ret.health = "error"
               \/ RowIndex(ret.before, cls.primary_key,
                           ret.args[Len(ret.args)]) # 0)
              => table = ret.before

\* C6 witness: a save whose statement the engine failed has completed
C6_Witness ==
    /\ ret.op = "save"
    /\ ret.health = "error"
    /\ ret.kind = "ok"
    /\ Len(ret.args) = Len(cls.fields) + 1

\* the i-th key save() and update() resolve
PersistKey(i) == (cls.fields \o <<cls.primary_key>>)[i]

\* The resolution policy over the arguments of the last save or update. The
\* record held a value other than None: that value, no factory call. Else the
\* field's default: None as it is; a literal as it is, and stored on the
\* record; a factory's result, and stored on the record. A field a default
\* was resolved for earlier (any, or those resolved to other than None) is
\* not resolved by a factory call again and gives the value resolved then.
ResolutionPolicy(anyCached) ==
    ret.op \in {"save", "update"} =>
        \A i \in 1..Len(ret.args) :
            LET k == PersistKey(i)
                f == MappingOf(cls.mappings, k)
                before == GetAttr(ret.instBefore, k)
            IN  /\ before # None =>
                      /\ ret.args[i] = before
                      /\ k \notin ret.invoked
                      /\ GetAttr(inst, k) = before
                /\ (before = None /\ f.default = None) =>
                      /\ ret.args[i] = None
                      /\ k \notin ret.invoked
                /\ (before = None /\ f.default \notin {None, Factory}) =>
                      /\ ret.args[i] = f.default
                      /\ k \notin ret.invoked
                      /\ GetAttr(inst, k) = f.default
                /\ (before = None /\ f.default = Factory) =>
                      /\ ret.args[i] = ret.fo
                      /\ k \in ret.invoked
                      /\ GetAttr(inst, k) = ret.fo
                /\ (/\ k \in DOMAIN ret.cachedBefore
                    /\ anyCached \/ ret.cachedBefore[k] # None) =>
                      /\ ret.args[i] = ret.cachedBefore[k]
                      /\ k \notin ret.invoked

\* constructing a record stores the keywords and resolves no default
ConstructionResolvesNothing ==
    ret.op = "new" => (inst = ret.instBefore /\ resolved = EmptyDict)

\* C10 as claimed: the resolution policy, where a second resolution of any
\* field never calls the factory again; and construction resolves no default.
C10_ResolvedDefaultIsNeverResolvedAgain ==
    ResolutionPolicy(TRUE) /\ ConstructionResolvesNothing

\* C10 as amended: the resolution policy, where a second resolution does not
\* call the factory again when the first resolved to a value other than None;
\* and construction resolves no default.
C10_DefaultResolutionPolicy ==
    ResolutionPolicy(FALSE) /\ ConstructionResolvesNothing

\* C10 witness: a record whose Sname was given as the empty string and whose
\* Sage and SId defaults were resolved by an earlier save is saved or updated
\* again, and a record has had its Sname made by the factory twice over
C10_Witness ==
    /\ ret.op \in {"save", "update"}
    /\ Len(ret.args) = Len(cls.fields) + 1
    /\ "Sage" \in DOMAIN ret.cachedBefore
    /\ "Sname" \in DOMAIN ret.cachedBefore
    /\ ret.cachedBefore["Sname"] = "made"

(***************************************************************************)
(* Properties of the pool under concurrent executeSql calls (SpecPool).    *)
(***************************************************************************)
InFlight == {t \in Tasks : task[t].pc \notin {"new", "done"}}
Holding == {t \in Tasks : task[t].pc \in {"execute", "fetch", "close"}}

\* C5 as claimed: the connections checked out are as many as the executeSql
\* calls in flight.
C5_CheckedOutEqualsInFlight ==
    Cardinality(pool.used) = Cardinality(InFlight)

\* C5 as amended: the connections checked out are exactly those of the calls
\* inside the async with block, one each; a call suspended in acquire() and a
\* call that has returned or raised hold none; so with no call in flight
\* none is checked out.
C5_CheckedOutEqualsHolding ==
    /\ pool.used = {task[t].conn : t \in Holding}
    /\ Cardinality(pool.used) = Cardinality(Holding)
    /\ \A t \in Tasks \ Holding : task[t].conn = 0
    /\ pool.used \cap pool.free = {}
    /\ InFlight = {} => pool.used = {}

\* C5 witness: every call is over, one has returned and one has raised inside
\* the block
C5_Witness ==
    /\ \A t \in Tasks : task[t].pc = "done"
    /\ \E t \in Tasks : task[t].last = "raised"
    /\ \E t \in Tasks : task[t].last = "returned"

\* C9: at most maxsize connections are checked out, no two tasks hold the
\* same one, a task suspended in acquire() leaves it only by getting a
\* connection, and it does get one.
C9_ExhaustedPoolSuspendsThenServes ==
    /\ [](/\ Cardinality(pool.used) <= pool.maxsize
          /\ \A t, u \in Holding : t # u => task[t].conn # task[u].conn
          /\ \A t \in Holding : task[t].conn \in pool.used)
    /\ [][\A t \in Tasks : task[t].pc = "acquire" =>
              task'[t].pc \in {"acquire", "execute"}]_vars
    /\ \A t \in Tasks : (task[t].pc = "acquire") ~> (task[t].pc = "execute")

\* C9 witness: more calls are in flight than maxsize, and the excess ones are
\* suspended
C9_Witness ==
    /\ Cardinality(InFlight) > pool.maxsize
    /\ Cardinality(pool.used) = pool.maxsize
    /\ \E t \in Tasks : task[t].pc = "acquire"

====
